---- MODULE Spec2Model ----
(***************************************************************************)
(* A model of Python/co2.py: a linear reporting script that loads a table  *)
(* of per-country CO2 observations, cleans it (Section 1) and derives six  *)
(* chart sections from the cleaned table (Sections 2 to 7).                *)
(*                                                                         *)
(* Numbers.  The script computes in binary floating point.  The model      *)
(* keeps that: a float is an integer count of units of 2^-FracBits with at *)
(* most MantBits significant bits, every arithmetic result is rounded to   *)
(* the nearest such value (ties to even), and NaN is a separate value that *)
(* propagates and compares unequal to everything.  All quantities of the   *)
(* data set are non-negative.                                              *)
(***************************************************************************)
EXTENDS Integers, Naturals, Sequences, FiniteSets, TLC

\* ------------------------------------------------------------------ bounds
MantBits == 6      \* significant bits of a float
FracBits == 3      \* a float counts units of 2^-FracBits
MaxRows == 3       \* rows of a small input file
MaxCountries == 11 \* countries of a wide input file (one row each)

\* --------------------------------------------------------- program constants
TopN == 10         \* nlargest(10, "co2")
MapYear == 2022    \* dataset["year"] == 2022
NumColumns == 7    \* the seven names assigned to dataset.columns

\* ------------------------------------------------------------------ floats
NaN == -1          \* float NaN, also the missing cell of a numeric column
NaS == "NaN"       \* the missing cell of a text column

RECURSIVE Pow2(_)
Pow2(k) == IF k = 0 THEN 1 ELSE 2 * Pow2(k - 1)

Unit == Pow2(FracBits)

Abs(x) == IF x < 0 THEN 0 - x ELSE x

\* q / d rounded to the nearest integer, ties to the even one.
RoundHalfEven(q, d) ==
    LET f == q \div d
        r == q % d
    IN  IF 2 * r < d THEN f
        ELSE IF 2 * r > d THEN f + 1
        ELSE IF f % 2 = 0 THEN f ELSE f + 1

\* The binary exponent of q / d: the least k with q / d < 2^(MantBits + k).
RECURSIVE ExpOf(_, _)
ExpOf(q, lim) == IF q < lim THEN 0 ELSE 1 + ExpOf(q, 2 * lim)

\* The float nearest to the rational num / den (in units): the mantissa is
\* rounded to MantBits bits, ties to even.
Round(num, den) ==
    LET k == ExpOf(num, Pow2(MantBits) * den)
    IN  RoundHalfEven(num, den * Pow2(k)) * Pow2(k)

IsNaN(x) == x = NaN

FMul(a, b) == IF IsNaN(a) \/ IsNaN(b) THEN NaN ELSE Round(a * b, Unit)

FAdd(a, b) == IF IsNaN(a) \/ IsNaN(b) THEN NaN ELSE Round(a + b, 1)

\* 0 / 0 is NaN.  A positive value is never divided by zero here: every
\* divisor is a sum of non-negative weights, zero only when the dividend is.
FDiv(a, b) ==
    IF IsNaN(a) \/ IsNaN(b) \/ b = 0 THEN NaN ELSE Round(a * Unit, b)

\* IEEE comparison: false as soon as one side is NaN.
FEq(a, b) == ~IsNaN(a) /\ ~IsNaN(b) /\ a = b

\* A whole number as a float.
IntToFloat(i) == Round(i * Unit, 1)

\* A decimal cell of the file, given in tenths ("3,5" is 35), as a float.
ParseDecimal(t) == Round(t * Unit, 10)

\* The `.1f` of an f-string: the value in tenths, rounded half to even on its
\* exact binary value; NaN prints as "nan".
Fmt1(v) == IF IsNaN(v) THEN NaN ELSE RoundHalfEven(10 * v, Unit)

\* --------------------------------------------------------------- sequences
Range(s) == {s[i] : i \in 1..Len(s)}

SetMin(S) == CHOOSE m \in S : \A x \in S : m <= x
SetMax(S) == CHOOSE m \in S : \A x \in S : x <= m

\* The elements of a set of integers in ascending order: the order in which
\* groupby (sort=True) and a sorted category index list their keys.
RECURSIVE SortedKeys(_)
SortedKeys(S) ==
    IF S = {} THEN <<>> ELSE <<SetMin(S)>> \o SortedKeys(S \ {SetMin(S)})

\* Series.sum(): the float additions in row order, from 0.
RECURSIVE FSum(_)
FSum(s) ==
    IF s = <<>> THEN 0 ELSE FAdd(FSum(SubSeq(s, 1, Len(s) - 1)), s[Len(s)])

\* The "mean" aggregation of a group: NaN for a group without rows.
FMean(s) == IF s = <<>> THEN NaN ELSE FDiv(FSum(s), IntToFloat(Len(s)))

\* Series.min() / Series.max(): NaN is skipped; NaN when nothing is left.
NanMin(s) ==
    LET S == {x \in Range(s) : ~IsNaN(x)} IN IF S = {} THEN NaN ELSE SetMin(S)
NanMax(s) ==
    LET S == {x \in Range(s) : ~IsNaN(x)} IN IF S = {} THEN NaN ELSE SetMax(S)

\* ------------------------------------------------------------------- state
(***************************************************************************)
(* Text cells.  A country or a region is the rank of its name in           *)
(* lexicographic order (the order of a category index and of groupby       *)
(* keys); 0 is an empty cell of the file.  A code is a string; "" is an   *)
(* empty cell.  A numeric cell of the file is a whole number (year, pop)   *)
(* or a count of tenths (co2_pc, gdp_pc, written with a decimal comma);    *)
(* Blank is an empty cell.  A row of the file is the tuple of its cells.   *)
(***************************************************************************)
Blank == NaN
WorldCode == "OWID_WRL"
NorthAmerica == 4  \* the rank of "North America" among the six region names

VARIABLES
    pc,              \* the statement group the script runs next
    file,            \* the CSV file: [exists, ncols, rows]
    observed,        \* what groupby's default does with unobserved categories
    dataset,         \* the shared frame: [columns, rows, categories]
    global_ts,       \* Section 2: the yearly series
    subtitle_text,   \* Section 2: "Key points" and the labelled entries
    top10,           \* Section 3
    top10_bn,        \* Section 4
    labels,          \* Sections 3 and 4: the plt.text labels of each chart
    scatter_data,    \* Section 5
    regional_ts,     \* Section 6: long form
    pivot_data,      \* Section 6: year x region matrix
    map_data,        \* Section 7
    map_region,      \* Section 7
    shown            \* the charts displayed so far, in order

vars == <<pc, file, observed, dataset, global_ts, subtitle_text, top10,
          top10_bn, labels, scatter_data, regional_ts, pivot_data, map_data,
          map_region, shown>>

derived == <<global_ts, subtitle_text, top10, top10_bn, labels, scatter_data,
             regional_ts, pivot_data, map_data, map_region>>

NoCategories == [country |-> {}, code |-> {}, region |-> {}]
NoFrame == [columns |-> <<>>, rows |-> <<>>, categories |-> NoCategories]
NoPivot == [index |-> <<>>, columns |-> <<>>, cell |-> <<>>]

ColumnNames ==
    <<"country", "code", "year", "co2_pc", "gdp_pc", "pop", "region">>

\* The statement groups in program order.
Steps ==
    <<"read", "overview", "rename", "dropna", "category", "filter",
      "agg2", "plot2", "agg3", "plot3", "agg4", "plot4", "sec5",
      "agg6", "plot6", "map1", "map2", "done">>

StepNo(p) == CHOOSE i \in 1..Len(Steps) : Steps[i] = p

\* The charts in program order, one per plt.show() / fig.show().
Charts ==
    <<"global_ts", "top10", "top10_bn", "scatter", "regional", "map_global",
      "map_region">>

\* A plausible slip: the failure is swallowed and the script goes on.
Halt_Continue == pc' = Steps[StepNo(pc) + 1]

\* An uncaught exception ends the interpreter: nothing runs afterwards.
Halt == pc' = "halted"

\* --------------------------------------------------- Section 1: the Loader
\* read_csv's cell conversion: an empty cell is a missing value; a decimal
\* cell becomes the nearest float.
ParseText(c) == IF c = 0 THEN NaN ELSE c
ParseCode(c) == IF c = "" THEN NaS ELSE c
ParseWhole(c) == IF c = Blank THEN NaN ELSE c
ParseFloat(c) == IF c = Blank THEN NaN ELSE ParseDecimal(c)
ParseCount(c) == IF c = Blank THEN NaN ELSE IntToFloat(c)

\* A seven-cell row of the file as read_csv types it; a row of another width
\* is kept as it is (the script fails on it before looking at a cell).
ParseRow(r) ==
    IF Len(r) # NumColumns THEN r
    ELSE <<ParseText(r[1]), ParseCode(r[2]), ParseWhole(r[3]),
           ParseFloat(r[4]), ParseFloat(r[5]), ParseCount(r[6]),
           ParseText(r[7])>>

ReadCsv ==
    /\ pc = "read"
    /\ file.exists
    /\ dataset' = [columns |-> [i \in 1..file.ncols |-> i],
                   rows |-> [i \in 1..Len(file.rows) |-> ParseRow(file.rows[i])],
                   categories |-> NoCategories]
    /\ pc' = "overview"
    /\ UNCHANGED <<file, observed, derived, shown>>

\* FileNotFoundError.
ReadCsvRaise ==
    /\ pc = "read"
    /\ ~file.exists
    /\ Halt
    /\ UNCHANGED <<file, observed, dataset, derived, shown>>

\* print / display of the shape, the head and the summary.
Overview ==
    /\ pc = "overview"
    /\ pc' = "rename"
    /\ UNCHANGED <<file, observed, dataset, derived, shown>>

\* dataset.columns = [seven names]: ValueError on another column count.
RenamedRow(r) ==
    [country |-> r[1], code |-> r[2], year |-> r[3], co2_pc |-> r[4],
     gdp_pc |-> r[5], pop |-> r[6], region |-> r[7]]

Rename ==
    /\ pc = "rename"
    /\ Len(dataset.columns) = NumColumns
    /\ dataset' = [dataset EXCEPT
                     !.columns = ColumnNames,
                     !.rows = [i \in 1..Len(dataset.rows) |->
                                 RenamedRow(dataset.rows[i])]]
    /\ pc' = "dropna"
    /\ UNCHANGED <<file, observed, derived, shown>>

RenameRaise ==
    /\ pc = "rename"
    /\ Len(dataset.columns) # NumColumns
    /\ Halt
    /\ UNCHANGED <<file, observed, dataset, derived, shown>>

\* dropna(): a row with a missing value in any column goes.
HasNa(r) ==
    \/ IsNaN(r.country) \/ r.code = NaS \/ IsNaN(r.year) \/ IsNaN(r.co2_pc)
    \/ IsNaN(r.gdp_pc) \/ IsNaN(r.pop) \/ IsNaN(r.region)

KeepComplete(r) == ~HasNa(r)

DropNa ==
    /\ pc = "dropna"
    /\ dataset' = [dataset EXCEPT !.rows = SelectSeq(dataset.rows, KeepComplete)]
    /\ pc' = "category"
    /\ UNCHANGED <<file, observed, derived, shown>>

\* astype("category") on the text columns: the categories of a column are
\* the values it holds at this point.
Categorize ==
    /\ pc = "category"
    /\ dataset' = [dataset EXCEPT !.categories =
            [country |-> {r.country : r \in Range(dataset.rows)},
             code |-> {r.code : r \in Range(dataset.rows)},
             region |-> {r.region : r \in Range(dataset.rows)}]]
    /\ pc' = "filter"
    /\ UNCHANGED <<file, observed, derived, shown>>

\* A plausible slip: only the empty code is filtered.
KeepCode_EmptyOnly(r) == r.code # ""

\* dataset[(code != "") & (code != "OWID_WRL")]: the rows change, the
\* categories of the columns stay.
KeepCode(r) == r.code # "" /\ r.code # WorldCode

FilterCode ==
    /\ pc = "filter"
    /\ dataset' = [dataset EXCEPT !.rows = SelectSeq(dataset.rows, KeepCode)]
    /\ pc' = "agg2"
    /\ UNCHANGED <<file, observed, derived, shown>>

\* ------------------------------------- Section 2: the global yearly series
Column(df, name) == [i \in 1..Len(df) |-> df[i][name]]

\* A plausible slip: the plain mean of the rates, without the weights.
WeightedMean_Unweighted(df) == FMean(Column(df, "co2_pc"))

\* The lambda of the groupby-apply: (co2_pc * pop).sum() / pop.sum().
WeightedMean(df) ==
    FDiv(FSum([i \in 1..Len(df) |-> FMul(df[i].co2_pc, df[i].pop)]),
         FSum(Column(df, "pop")))

\* groupby("year").apply(...).reset_index(name="co2"): one row per year of
\* the frame, in ascending year order.
YearlySeries(rows) ==
    LET ys == SortedKeys(Range(Column(rows, "year")))
    IN  [i \in 1..Len(ys) |->
            [year |-> ys[i],
             co2 |-> WeightedMean(SelectSeq(rows, LAMBDA r : r.year = ys[i]))]]

\* A plausible slip: the value tests come before the last-year test.
Marker_ValueFirst(row, last_year, min_val, max_val) ==
    IF FEq(row.co2, min_val) THEN "B"
    ELSE IF FEq(row.co2, max_val) THEN "C"
    ELSE IF row.year = last_year THEN "A"
    ELSE "D"

\* The marker of a row: the conditional expression of lines 101-103.
Marker(row, last_year, min_val, max_val) ==
    IF row.year = last_year THEN "A"
    ELSE IF FEq(row.co2, min_val) THEN "B"
    ELSE IF FEq(row.co2, max_val) THEN "C"
    ELSE "D"

\* A plausible slip: first match wins, only the first row at the minimum and
\* the first at the maximum keep their tag.
Annotated_FirstMatch(ts) ==
    LET last_year == SetMax(Range(Column(ts, "year")))
        min_val == NanMin(Column(ts, "co2"))
        max_val == NanMax(Column(ts, "co2"))
        tag(i) == Marker(ts[i], last_year, min_val, max_val)
        first(i) == \A j \in 1..(i - 1) : tag(j) # tag(i)
    IN  [i \in 1..Len(ts) |->
            LET m == IF tag(i) \in {"B", "C"} /\ ~first(i) THEN "D" ELSE tag(i)
            IN  [year |-> ts[i].year, co2 |-> ts[i].co2, marker |-> m,
                 value |-> IF m \in {"A", "B", "C"} THEN ts[i].co2 ELSE NaN]]

\* The series with its "marker" and "value" columns (None becomes NaN in a
\* float column).
Annotated(ts) ==
    LET last_year == SetMax(Range(Column(ts, "year")))
        min_val == NanMin(Column(ts, "co2"))
        max_val == NanMax(Column(ts, "co2"))
    IN  [i \in 1..Len(ts) |->
            LET m == Marker(ts[i], last_year, min_val, max_val)
            IN  [year |-> ts[i].year, co2 |-> ts[i].co2, marker |-> m,
                 value |-> IF m \in {"A", "B", "C"} THEN ts[i].co2 ELSE NaN]]

\* One subtitle entry per row marked A, B or C.
SubtitleLabel(row) ==
    IF row.marker = "A" THEN [label |-> "Last", value |-> Fmt1(row.value)]
    ELSE IF row.marker = "B"
    THEN [label |-> "Min", value |-> Fmt1(row.value), year |-> row.year]
    ELSE [label |-> "Max", value |-> Fmt1(row.value), year |-> row.year]

IsKeyPoint(row) == row.marker \in {"A", "B", "C"}

\* A plausible slip (and the order the description promises): the entries
\* grouped by kind, Last, then Min, then Max.
SubtitleLabels_ByKind(ts) ==
    LET pick(m) == SelectSeq(ts, LAMBDA r : r.marker = m)
        key == pick("A") \o pick("B") \o pick("C")
    IN  [i \in 1..Len(key) |-> SubtitleLabel(key[i])]

\* The loop over the rows marked A, B or C, in the order of the series.
SubtitleLabels(ts) ==
    LET key == SelectSeq(ts, IsKeyPoint)
    IN  [i \in 1..Len(key) |-> SubtitleLabel(key[i])]

\* "Key points" followed by the entries, joined by the bullet separator.
SubtitleText(ts) == <<"Key points">> \o SubtitleLabels(ts)

Aggregate2 ==
    /\ pc = "agg2"
    /\ dataset.rows # <<>>
    /\ global_ts' = Annotated(YearlySeries(dataset.rows))
    /\ subtitle_text' = SubtitleText(global_ts')
    /\ pc' = "plot2"
    /\ UNCHANGED <<file, observed, dataset, top10, top10_bn, labels,
                   scatter_data, regional_ts, pivot_data, map_data,
                   map_region, shown>>

\* An empty frame: the apply over no group gives an empty DataFrame, which
\* reset_index(name=...) rejects.
Aggregate2Raise ==
    /\ pc = "agg2"
    /\ dataset.rows = <<>>
    /\ Halt
    /\ UNCHANGED <<file, observed, dataset, derived, shown>>

\* plt.ylim(0, max * 1.15) rejects a NaN limit (every year without people).
Plot2 ==
    /\ pc = "plot2"
    /\ ~IsNaN(NanMax(Column(global_ts, "co2")))
    /\ shown' = Append(shown, "global_ts")
    /\ pc' = "agg3"
    /\ UNCHANGED <<file, observed, dataset, derived>>

Plot2Raise ==
    /\ pc = "plot2"
    /\ IsNaN(NanMax(Column(global_ts, "co2")))
    /\ Halt
    /\ UNCHANGED <<file, observed, dataset, derived, shown>>

\* ------------------------------------ Sections 3 and 4: the top emitters
\* dataset[dataset["year"] == dataset["year"].max()]
LatestRows(rows) ==
    LET latest_year == SetMax(Range(Column(rows, "year")))
    IN  SelectSeq(rows, LAMBDA r : r.year = latest_year)

\* The keys of a groupby on a categorical column.  The script leaves the
\* `observed` argument to its default: an older pandas lists every category
\* of the column (observed = FALSE), a newer one only the values present.
GroupKeys(df, name, cats) ==
    IF observed THEN SortedKeys(Range(Column(df, name)))
    ELSE SortedKeys(cats[name])

\* groupby("country", as_index=False).agg({"co2_pc": "mean", "pop": "mean"})
CountryMeans(df, cats) ==
    LET keys == GroupKeys(df, "country", cats)
    IN  [i \in 1..Len(keys) |->
            LET grp == SelectSeq(df, LAMBDA r : r.country = keys[i])
            IN  [country |-> keys[i],
                 co2_pc |-> FMean(Column(grp, "co2_pc")),
                 pop |-> FMean(Column(grp, "pop"))]]

\* top10["co2"] = top10["co2_pc"] * top10["pop"]
WithTotal(df) ==
    [i \in 1..Len(df) |->
        [country |-> df[i].country, co2_pc |-> df[i].co2_pc,
         pop |-> df[i].pop, co2 |-> FMul(df[i].co2_pc, df[i].pop)]]

\* Whether a total goes before another in a sort: NaN goes last either way.
GoesBefore(a, b, ascending) ==
    /\ ~IsNaN(a)
    /\ \/ IsNaN(b)
       \/ IF ascending THEN a < b ELSE a > b

\* A stable sort by "co2": equal totals keep the order they came in.
RECURSIVE InsertRow(_, _, _)
InsertRow(x, s, ascending) ==
    IF s = <<>> THEN <<x>>
    ELSE IF GoesBefore(x.co2, Head(s).co2, ascending) THEN <<x>> \o s
    ELSE <<Head(s)>> \o InsertRow(x, Tail(s), ascending)

RECURSIVE SortByTotal(_, _)
SortByTotal(s, ascending) ==
    IF s = <<>> THEN <<>>
    ELSE InsertRow(s[Len(s)], SortByTotal(SubSeq(s, 1, Len(s) - 1), ascending),
                   ascending)

FirstRows(s, n) == SubSeq(s, 1, IF Len(s) < n THEN Len(s) ELSE n)


\* nlargest(n, "co2"), keep="first": the n largest totals in descending
\* order, ties in frame order; rows without a total fill up what is left.
NLargest(n, df) == FirstRows(SortByTotal(df, FALSE), n)

\* sort_values("co2", ascending=True)
SortValues(df) == SortByTotal(df, TRUE)

\* Lines 175-190 (and 238-254): the frame a top-emitters chart draws.
TopEmitters(ds) ==
    SortValues(NLargest(TopN,
        WithTotal(CountryMeans(LatestRows(ds.rows), ds.categories))))

\* top10.loc[top10["co2"].idxmax()]: the first row holding the largest total.
MaxRow(df) ==
    LET m == NanMax(Column(df, "co2"))
        i == SetMin({j \in 1..Len(df) : FEq(df[j].co2, m)})
    IN  df[i]

\* The literal 0.99 as a float.
Literal099 == Round(99 * Unit, 100)

\* A plausible slip: the other rows are told from max_row by their total
\* instead of their country.
BarLabels_ByTotal(df, fmt) ==
    LET max_row == MaxRow(df)
        x == FMul(max_row.co2, Literal099)
        others == SelectSeq(df, LAMBDA r : r.co2 # max_row.co2)
    IN  <<[x |-> x, y |-> max_row.country, color |-> "white",
           text |-> [fmt |-> fmt, arg |-> max_row.co2]]>>
        \o [i \in 1..Len(others) |->
              [x |-> x, y |-> others[i].country, color |-> "black",
               text |-> [fmt |-> fmt, arg |-> others[i].co2]]]

\* The plt.text calls of a top-emitters chart: the label of max_row in white,
\* then one black label per row of another country, all at max_row's x.
BarLabels(df, fmt) ==
    LET max_row == MaxRow(df)
        x == FMul(max_row.co2, Literal099)
        others == SelectSeq(df, LAMBDA r : r.country # max_row.country)
    IN  <<[x |-> x, y |-> max_row.country, color |-> "white",
           text |-> [fmt |-> fmt, arg |-> max_row.co2]]>>
        \o [i \in 1..Len(others) |->
              [x |-> x, y |-> others[i].country, color |-> "black",
               text |-> [fmt |-> fmt, arg |-> others[i].co2]]]

Aggregate3 ==
    /\ pc = "agg3"
    /\ top10' = TopEmitters(dataset)
    /\ pc' = "plot3"
    /\ UNCHANGED <<file, observed, dataset, global_ts, subtitle_text, top10_bn,
                   labels, scatter_data, regional_ts, pivot_data, map_data,
                   map_region, shown>>

Plot3 ==
    /\ pc = "plot3"
    /\ labels' = [labels EXCEPT !.top10 = BarLabels(top10, ".0f")]
    /\ shown' = Append(shown, "top10")
    /\ pc' = "agg4"
    /\ UNCHANGED <<file, observed, dataset, global_ts, subtitle_text, top10,
                   top10_bn, scatter_data, regional_ts, pivot_data, map_data,
                   map_region>>

\* Section 4 repeats Section 3; its labels print co2 / 1e9 as ".1f bn".
Aggregate4 ==
    /\ pc = "agg4"
    /\ top10_bn' = TopEmitters(dataset)
    /\ pc' = "plot4"
    /\ UNCHANGED <<file, observed, dataset, global_ts, subtitle_text, top10,
                   labels, scatter_data, regional_ts, pivot_data, map_data,
                   map_region, shown>>

Plot4 ==
    /\ pc = "plot4"
    /\ labels' = [labels EXCEPT !.top10_bn = BarLabels(top10_bn, ".1f bn")]
    /\ shown' = Append(shown, "top10_bn")
    /\ pc' = "sec5"
    /\ UNCHANGED <<file, observed, dataset, global_ts, subtitle_text, top10,
                   top10_bn, scatter_data, regional_ts, pivot_data, map_data,
                   map_region>>

\* ------------------------------------------------ Section 5: the scatterplot
Section5 ==
    /\ pc = "sec5"
    /\ scatter_data' = LatestRows(dataset.rows)
    /\ shown' = Append(shown, "scatter")
    /\ pc' = "agg6"
    /\ UNCHANGED <<file, observed, dataset, global_ts, subtitle_text, top10,
                   top10_bn, labels, regional_ts, pivot_data, map_data,
                   map_region>>

\* A plausible slip: the product is also written over co2_pc.
WithAbsolute_InPlace(ds) ==
    [ds EXCEPT
       !.columns = Append(ds.columns, "co2_abs"),
       !.rows = [i \in 1..Len(ds.rows) |->
                   [country |-> ds.rows[i].country, code |-> ds.rows[i].code,
                    year |-> ds.rows[i].year,
                    co2_pc |-> FMul(ds.rows[i].co2_pc, ds.rows[i].pop),
                    gdp_pc |-> ds.rows[i].gdp_pc, pop |-> ds.rows[i].pop,
                    region |-> ds.rows[i].region,
                    co2_abs |-> FMul(ds.rows[i].co2_pc, ds.rows[i].pop)]]]

\* dataset["co2_abs"] = dataset["co2_pc"] * dataset["pop"]: a new column of
\* the shared frame.
WithAbsolute(ds) ==
    [ds EXCEPT
       !.columns = Append(ds.columns, "co2_abs"),
       !.rows = [i \in 1..Len(ds.rows) |->
                   [country |-> ds.rows[i].country, code |-> ds.rows[i].code,
                    year |-> ds.rows[i].year, co2_pc |-> ds.rows[i].co2_pc,
                    gdp_pc |-> ds.rows[i].gdp_pc, pop |-> ds.rows[i].pop,
                    region |-> ds.rows[i].region,
                    co2_abs |-> FMul(ds.rows[i].co2_pc, ds.rows[i].pop)]]]

\* The (year, region) groups in key order: the pairs present, or with
\* unobserved categories every year of the frame with every region category.
PairKeys(ds) ==
    LET ys == SortedKeys(Range(Column(ds.rows, "year")))
        rs == GroupKeys(ds.rows, "region", ds.categories)
        present == {<<r.year, r.region>> : r \in Range(ds.rows)}
        all == [k \in 1..(Len(ys) * Len(rs)) |->
                  <<ys[((k - 1) \div Len(rs)) + 1], rs[((k - 1) % Len(rs)) + 1]>>]
    IN  IF observed THEN SelectSeq(all, LAMBDA p : p \in present) ELSE all

\* groupby(["year", "region"], as_index=False).agg({"co2_abs": "sum"})
\*   .rename(columns={"co2_abs": "co2"}); the sum of no row is 0.
RegionalSeries(ds) ==
    LET keys == PairKeys(ds)
    IN  [i \in 1..Len(keys) |->
            LET grp == SelectSeq(ds.rows, LAMBDA r :
                           r.year = keys[i][1] /\ r.region = keys[i][2])
            IN  [year |-> keys[i][1], region |-> keys[i][2],
                 co2 |-> FSum(Column(grp, "co2_abs"))]]

\* pivot(index="year", columns="region", values="co2"): a cell without a row
\* in the long form is NaN.
Pivot(ts) ==
    LET ys == SortedKeys(Range(Column(ts, "year")))
        rs == SortedKeys(Range(Column(ts, "region")))
    IN  [index |-> ys, columns |-> rs,
         cell |-> [p \in Range(ys) \X Range(rs) |->
                     IF \E i \in 1..Len(ts) : ts[i].year = p[1] /\ ts[i].region = p[2]
                     THEN LET i == CHOOSE i \in 1..Len(ts) :
                                       ts[i].year = p[1] /\ ts[i].region = p[2]
                          IN  ts[i].co2
                     ELSE NaN]]

\* A plausible slip: the fill is forgotten.
FillNa_Forgotten(pv) == pv

\* fillna(0)
FillNa(pv) ==
    [pv EXCEPT !.cell = [p \in DOMAIN pv.cell |->
                            IF IsNaN(pv.cell[p]) THEN 0 ELSE pv.cell[p]]]

Aggregate6 ==
    /\ pc = "agg6"
    /\ dataset' = WithAbsolute(dataset)
    /\ regional_ts' = RegionalSeries(dataset')
    /\ pivot_data' = FillNa(Pivot(regional_ts'))
    /\ pc' = "plot6"
    /\ UNCHANGED <<file, observed, global_ts, subtitle_text, top10, top10_bn,
                   labels, scatter_data, map_data, map_region, shown>>

Plot6 ==
    /\ pc = "plot6"
    /\ shown' = Append(shown, "regional")
    /\ pc' = "map1"
    /\ UNCHANGED <<file, observed, dataset, derived>>

\* ------------------------------------------------------ Section 7: the maps
MapGlobal ==
    /\ pc = "map1"
    /\ map_data' = SelectSeq(dataset.rows, LAMBDA r : r.year = MapYear)
    /\ shown' = Append(shown, "map_global")
    /\ pc' = "map2"
    /\ UNCHANGED <<file, observed, dataset, global_ts, subtitle_text, top10,
                   top10_bn, labels, scatter_data, regional_ts, pivot_data,
                   map_region>>

MapRegion ==
    /\ pc = "map2"
    /\ map_region' = SelectSeq(map_data, LAMBDA r : r.region = NorthAmerica)
    /\ shown' = Append(shown, "map_region")
    /\ pc' = "done"
    /\ UNCHANGED <<file, observed, dataset, global_ts, subtitle_text, top10,
                   top10_bn, labels, scatter_data, regional_ts, pivot_data,
                   map_data>>

\* ------------------------------------------------- failures of the platform
\* A statement group that calls into the display or the plotting backend can
\* raise whatever the data: display() outside a notebook, a backend that
\* cannot draw, plotly not installed.
RaisePoints ==
    {"overview", "plot2", "plot3", "plot4", "sec5", "plot6", "map1", "map2"}

Raise ==
    /\ pc \in RaisePoints
    /\ Halt
    /\ UNCHANGED <<file, observed, dataset, derived, shown>>

Next ==
    \/ ReadCsv \/ ReadCsvRaise \/ Overview \/ Rename \/ RenameRaise
    \/ DropNa \/ Categorize \/ FilterCode
    \/ Aggregate2 \/ Aggregate2Raise \/ Plot2 \/ Plot2Raise
    \/ Aggregate3 \/ Plot3 \/ Aggregate4 \/ Plot4
    \/ Section5 \/ Aggregate6 \/ Plot6 \/ MapGlobal \/ MapRegion
    \/ Raise

\* ------------------------------------------------------------------ inputs
\* Input files: every sequence of at most n rows drawn from a
\* list of rows, listed in the order of that list.
RECURSIVE Picks(_, _, _)
Picks(k, lo, d) ==
    IF k = 0 THEN {<<>>}
    ELSE UNION {{<<i>> \o t : t \in Picks(k - 1, i, d)} : i \in lo..d}

RowLists(dom, n) ==
    UNION {{[i \in 1..k |-> dom[ix[i]]] : ix \in Picks(k, 1, Len(dom))} :
             k \in 0..n}

CsvFile(rows) == [exists |-> TRUE, ncols |-> NumColumns, rows |-> rows]

\* Files of every family of inputs: no file, a file with a column missing, one
\* with a column too many, one with a header only, one whose only country
\* has no inhabitants.
SpecialFiles ==
    { [exists |-> FALSE, ncols |-> 0, rows |-> <<>>],
      [exists |-> TRUE, ncols |-> NumColumns - 1,
       rows |-> << <<1, "ABW", MapYear, 35, 20, 3>> >>],
      [exists |-> TRUE, ncols |-> NumColumns + 1,
       rows |-> << <<1, "ABW", MapYear, 35, 20, 3, 4, 0>> >>],
      CsvFile(<<>>),
      CsvFile(<< <<1, "ABW", MapYear, 35, 20, 0, 4>> >>) }

InitWith(files) ==
    /\ pc = "read"
    /\ file \in SpecialFiles \cup files
    /\ observed \in BOOLEAN
    /\ dataset = NoFrame
    /\ global_ts = <<>>
    /\ subtitle_text = <<>>
    /\ top10 = <<>>
    /\ top10_bn = <<>>
    /\ labels = [top10 |-> <<>>, top10_bn |-> <<>>]
    /\ scatter_data = <<>>
    /\ regional_ts = <<>>
    /\ pivot_data = NoPivot
    /\ map_data = <<>>
    /\ map_region = <<>>
    /\ shown = <<>>

\* Files for the Loader: a complete row, the same row with each of its seven
\* cells empty in turn, rows of the world aggregate, a second country.
LoadRows ==
    << <<1, "ABW", MapYear, 35, 20, 3, 4>>,
       <<0, "ABW", MapYear, 35, 20, 3, 4>>,
       <<1, "", MapYear, 35, 20, 3, 4>>,
       <<1, "ABW", Blank, 35, 20, 3, 4>>,
       <<1, "ABW", MapYear, Blank, 20, 3, 4>>,
       <<1, "ABW", MapYear, 35, Blank, 3, 4>>,
       <<1, "ABW", MapYear, 35, 20, Blank, 4>>,
       <<1, "ABW", MapYear, 35, 20, 3, 0>>,
       <<3, WorldCode, MapYear, 57, 20, 5, 6>>,
       <<3, WorldCode, MapYear, 57, Blank, 5, 6>>,
       <<2, "BRA", MapYear - 1, 10, 20, 1, 2>> >>

Init == InitWith({CsvFile(r) : r \in RowLists(LoadRows, MaxRows)})

Spec == Init /\ [][Next]_vars

\* Files for the yearly series: three years, two emission rates, populations
\* of 0, 1 and 3.
SeriesRows ==
    LET ys == <<MapYear - 2, MapYear - 1, MapYear>>
        cs == <<10, 57>>
        ps == <<0, 1, 3>>
    IN  [k \in 1..18 |->
            <<((k - 1) % 2) + 1, "ABW", ys[((k - 1) \div 6) + 1],
              cs[((k - 1) % 2) + 1], 20, ps[(((k - 1) \div 2) % 3) + 1], 4>>]

InitSeries == InitWith({CsvFile(r) : r \in RowLists(SeriesRows, MaxRows)})

SpecSeries == InitSeries /\ [][Next]_vars

\* Files for the regional pivot: two years, two regions, two rates, two
\* populations, and a row of the world aggregate in a region of its own.
PivotRows ==
    LET cs == <<10, 57>>
        ps == <<1, 3>>
    IN  [k \in 1..16 |->
            <<((k - 1) % 2) + 1, "ABW", MapYear - ((k - 1) \div 8),
              cs[((k - 1) % 2) + 1], 20, ps[(((k - 1) \div 2) % 2) + 1],
              2 * ((((k - 1) \div 4) % 2) + 1)>>]
        \o << <<3, WorldCode, MapYear, 57, 20, 5, 6>> >>

InitPivot == InitWith({CsvFile(r) : r \in RowLists(PivotRows, MaxRows)})

SpecPivot == InitPivot /\ [][Next]_vars

\* Files for the top emitters.  Narrow files: three countries, two years, two
\* rates, and the world aggregate.  Wide files: k countries around TopN with
\* one row each in the last year, all at one rate except a highest (hi) and
\* a lowest (lo), with or without a country seen only in an earlier year and
\* a row of the world aggregate.
NarrowRows ==
    LET cs == <<10, 57>>
    IN  [k \in 1..12 |->
            <<((k - 1) % 3) + 1, "ABW", MapYear - (((k - 1) \div 3) % 2),
              cs[((k - 1) \div 6) + 1], 20, 2, 4>>]
        \o << <<4, WorldCode, MapYear, 57, 20, 5, 6>> >>

WideRows(k, hi, lo, extras) ==
    [i \in 1..k |->
        <<i, "ABW", MapYear,
          IF i = hi THEN 57 ELSE IF i = lo THEN 10 ELSE 35, 20, 2, 4>>]
    \o (IF extras
        THEN << <<k + 1, "ABW", MapYear - 1, 57, 20, 2, 2>>,
                <<k + 2, WorldCode, MapYear, 57, 20, 5, 6>> >>
        ELSE <<>>)

WideFiles ==
    {CsvFile(WideRows(k, hi, lo, extras)) :
        k \in (TopN - 1)..MaxCountries, hi \in 0..MaxCountries,
        lo \in 0..MaxCountries, extras \in BOOLEAN}

InitTop ==
    InitWith({CsvFile(r) : r \in RowLists(NarrowRows, MaxRows)} \cup WideFiles)

SpecTop == InitTop /\ [][Next]_vars

\* ------------------------------------------------------- stating the claims
\* The rows of the cleaned table a chart section reads.
Cleaned == dataset.rows

\* n is num / den up to the rounding of `ops` float operations: each adds at
\* most a relative 2^-MantBits or, near zero, half a unit.
Close(n, num, den, ops) ==
    /\ ~IsNaN(n)
    /\ 2 * Pow2(MantBits) * Abs(n * den - num)
         <= ops * (2 * num + Pow2(MantBits) * den)

\* A quantity (in units) that a float holds without rounding.
Exact(n) == n % Pow2(ExpOf(n, Pow2(MantBits))) = 0

RECURSIVE IntSum(_)
IntSum(s) == IF s = <<>> THEN 0 ELSE Head(s) + IntSum(Tail(s))

SumOver(s, f(_)) == IntSum([i \in 1..Len(s) |-> f(s[i])])

YearsOf(rows) == {rows[i].year : i \in 1..Len(rows)}
RowsOfYear(rows, y) == SelectSeq(rows, LAMBDA r : r.year = y)
PopOf(r) == r.pop
EmissionOf(r) == r.co2_pc * r.pop

SeriesBuilt == global_ts # <<>>

\* One row per distinct year of the cleaned table, in ascending order.
OneRowPerYear ==
    /\ {global_ts[i].year : i \in 1..Len(global_ts)} = YearsOf(Cleaned)
    /\ \A i, j \in 1..Len(global_ts) : i < j => global_ts[i].year < global_ts[j].year

\* C2 as claimed: the yearly value is the population-weighted mean of the
\* year's records, there is one row per distinct year, and the value of a
\* year with a single record is that record's co2_pc exactly.
C2_Original ==
    SeriesBuilt =>
      /\ OneRowPerYear
      /\ \A i \in 1..Len(global_ts) :
           LET grp == RowsOfYear(Cleaned, global_ts[i].year)
           IN  /\ SumOver(grp, PopOf) > 0 =>
                    Close(global_ts[i].co2, SumOver(grp, EmissionOf),
                          SumOver(grp, PopOf), 2 * Len(grp) + 1)
               /\ Len(grp) = 1 => global_ts[i].co2 = grp[1].co2_pc

\* C2 as amended: one row per distinct year; the value of a year without
\* population is NaN; otherwise it is the weighted mean up to float rounding,
\* and for a single record it is co2_pc up to rounding, exactly co2_pc when
\* co2_pc * pop is held without rounding.
C2_WeightedMean ==
    SeriesBuilt =>
      /\ OneRowPerYear
      /\ \A i \in 1..Len(global_ts) :
           LET grp == RowsOfYear(Cleaned, global_ts[i].year)
               v == global_ts[i].co2
           IN  /\ SumOver(grp, PopOf) = 0 => IsNaN(v)
               /\ SumOver(grp, PopOf) > 0 =>
                    Close(v, SumOver(grp, EmissionOf), SumOver(grp, PopOf),
                          2 * Len(grp) + 1)
               /\ Len(grp) = 1 /\ grp[1].pop > 0 =>
                    /\ Close(v, grp[1].co2_pc, 1, 2)
                    /\ (EmissionOf(grp[1]) % Unit = 0
                          /\ Exact(EmissionOf(grp[1]) \div Unit))
                         => v = grp[1].co2_pc

\* A year with two records of different rates and weights, and a year with
\* a single record, both in the series.
C2_Witness ==
    /\ SeriesBuilt
    /\ \E i, j \in 1..Len(global_ts) :
         LET g == RowsOfYear(Cleaned, global_ts[i].year)
             h == RowsOfYear(Cleaned, global_ts[j].year)
         IN  /\ Len(g) = 2 /\ g[1].co2_pc # g[2].co2_pc
             /\ g[1].pop > 0 /\ g[2].pop > 0 /\ g[1].pop # g[2].pop
             /\ Len(h) = 1 /\ h[1].pop > 0

\* The series' last year, and what it is for a value to be its minimum or its
\* maximum, stated from the rows.
LastYear == CHOOSE y \in YearsOf(global_ts) : \A z \in YearsOf(global_ts) : z <= y
AtMinimum(v) ==
    ~IsNaN(v) /\ \A i \in 1..Len(global_ts) :
                    IsNaN(global_ts[i].co2) \/ v <= global_ts[i].co2
AtMaximum(v) ==
    ~IsNaN(v) /\ \A i \in 1..Len(global_ts) :
                    IsNaN(global_ts[i].co2) \/ global_ts[i].co2 <= v

\* C5: every row of the yearly series has one of the four tags, decided in
\* the order last year, minimum, maximum, other: the row of the last year is
\* "A" whatever its value, and another row at the minimum is "B" even when
\* it is at the maximum too.
C5_TagPrecedence ==
    SeriesBuilt =>
      \A i \in 1..Len(global_ts) :
        LET row == global_ts[i]
        IN  /\ row.marker \in {"A", "B", "C", "D"}
            /\ row.marker = "A" <=> row.year = LastYear
            /\ row.marker = "B" <=> row.year # LastYear /\ AtMinimum(row.co2)
            /\ row.marker = "C" <=>
                 row.year # LastYear /\ AtMaximum(row.co2) /\ ~AtMinimum(row.co2)

\* The last year's row is at the minimum and at the maximum and tagged "A",
\* and an earlier row, at both too, is tagged "B".
C5_Witness ==
    /\ SeriesBuilt
    /\ \E i, j \in 1..Len(global_ts) :
         /\ global_ts[i].year = LastYear /\ global_ts[j].year # LastYear
         /\ AtMinimum(global_ts[i].co2) /\ AtMaximum(global_ts[i].co2)
         /\ AtMinimum(global_ts[j].co2) /\ AtMaximum(global_ts[j].co2)
         /\ global_ts[i].marker = "A" /\ global_ts[j].marker = "B"

\* The labelled entries of the subtitle, after its "Key points" head.
Entries == Tail(subtitle_text)
SubtitleBuilt == subtitle_text # <<>>

\* C7 as claimed: the entries come in the order Last, Min, Max: no Min or Max
\* entry before the Last entry, no Max entry before a Min entry.
C7_Original ==
    SubtitleBuilt =>
      \A i, j \in 1..Len(Entries) :
        i < j =>
          /\ ~(Entries[i].label \in {"Min", "Max"} /\ Entries[j].label = "Last")
          /\ ~(Entries[i].label = "Max" /\ Entries[j].label = "Min")

\* C7 as amended: the entries come in the order of their years: one entry
\* per tagged row of the series in ascending year order, so the single Last
\* entry closes the subtitle, after every Min and Max entry.
C7_Chronological ==
    SubtitleBuilt =>
      /\ subtitle_text[1] = "Key points"
      /\ Len(Entries) = Cardinality({i \in 1..Len(global_ts) :
                                       global_ts[i].marker # "D"})
      /\ Entries[Len(Entries)].label = "Last"
      /\ \A i \in 1..(Len(Entries) - 1) :
           /\ Entries[i].label \in {"Min", "Max"}
           /\ Entries[i].year < LastYear
           /\ i > 1 => Entries[i - 1].year < Entries[i].year

\* A subtitle that reads Max, Min, Last.
C7_Witness ==
    /\ SubtitleBuilt
    /\ Len(Entries) = 3
    /\ Entries[1].label = "Max" /\ Entries[2].label = "Min"
    /\ Entries[3].label = "Last"

CountTag(m) == Cardinality({i \in 1..Len(global_ts) : global_ts[i].marker = m})
CountLabel(l) == Cardinality({i \in 1..Len(Entries) : Entries[i].label = l})

\* C9 as claimed: first match wins, so at most one row is tagged minimum and
\* at most one maximum, and the subtitle has at most one Min and one Max.
C9_Original ==
    SubtitleBuilt =>
      /\ CountTag("B") <= 1 /\ CountTag("C") <= 1
      /\ CountLabel("Min") <= 1 /\ CountLabel("Max") <= 1

\* C9 as amended: every row before the last year whose value ties for the
\* series minimum is tagged minimum, and every such row tying for the
\* maximum (and not the minimum) is tagged maximum; the subtitle has one Min
\* or Max entry for each of them.
C9_EveryTie ==
    SubtitleBuilt =>
      /\ CountTag("B") = Cardinality({i \in 1..Len(global_ts) :
             global_ts[i].year # LastYear /\ AtMinimum(global_ts[i].co2)})
      /\ CountTag("C") = Cardinality({i \in 1..Len(global_ts) :
             /\ global_ts[i].year # LastYear
             /\ AtMaximum(global_ts[i].co2) /\ ~AtMinimum(global_ts[i].co2)})
      /\ CountLabel("Min") = CountTag("B")
      /\ CountLabel("Max") = CountTag("C")

\* Two years before the last tie for the minimum and both are tagged.
C9_Witness ==
    /\ SubtitleBuilt
    /\ CountTag("B") = 2 /\ CountLabel("Min") = 2
    /\ \E i \in 1..Len(global_ts) :
         global_ts[i].year = LastYear /\ ~AtMinimum(global_ts[i].co2)

\* The Loader has run to its end and the script has not failed.
LoaderDone == pc # "halted" /\ StepNo(pc) > StepNo("filter")

\* C1: after the Loader every record of the table has a code that is neither
\* empty nor the world aggregate's, and a value in each of the seven columns.
C1_CleanRecords ==
    LoaderDone =>
      \A i \in 1..Len(dataset.rows) :
        LET r == dataset.rows[i]
        IN  /\ r.code \notin {"", WorldCode, NaS}
            /\ \A name \in Range(ColumnNames) \ {"code"} : r[name] # NaN

\* A file with a complete row of the world aggregate, a row with an empty
\* cell and a row that stays.
C1_Witness ==
    /\ LoaderDone
    /\ Len(file.rows) = 3 /\ Len(dataset.rows) = 1
    /\ \E i, j \in 1..Len(file.rows) :
         /\ file.rows[i][2] = WorldCode /\ file.rows[i][5] # Blank
         /\ file.rows[j][2] = "ABW" /\ file.rows[j][6] = Blank

\* The script is in a chart section (Sections 2 to 7).
ChartSection == pc \notin {"halted", "done"} /\ StepNo(pc) > StepNo("filter")

\* C6 as claimed: no chart section modifies the shared table, neither its
\* records nor its columns.
C6_Original == [][ChartSection => dataset' = dataset]_vars

\* C6 as amended: no chart section adds, drops or reorders a record, changes
\* a value of the seven columns or a category; Section 6 adds the column
\* co2_abs to the shared table, and no other section changes the table.
C6_SevenColumnsKept ==
    [][ChartSection =>
         /\ Len(dataset'.rows) = Len(dataset.rows)
         /\ \A i \in 1..Len(dataset.rows) : \A name \in Range(ColumnNames) :
              dataset'.rows[i][name] = dataset.rows[i][name]
         /\ dataset'.categories = dataset.categories
         /\ IF pc = "agg6"
            THEN /\ dataset'.columns = Append(dataset.columns, "co2_abs")
                 /\ \A i \in 1..Len(dataset.rows) :
                      DOMAIN dataset'.rows[i] =
                        DOMAIN dataset.rows[i] \cup {"co2_abs"}
            ELSE dataset' = dataset]_vars

\* Section 6 has run on a table of two records: the table has the column.
C6_Witness ==
    /\ pc = "plot6"
    /\ Len(dataset.rows) = 2
    /\ dataset.columns = Append(ColumnNames, "co2_abs")

\* The step that displays each chart, and the charts displayed before a step.
ShowSteps == <<"plot2", "plot3", "plot4", "sec5", "plot6", "map1", "map2">>
ChartsDone(p) ==
    Cardinality({i \in 1..Len(ShowSteps) : StepNo(ShowSteps[i]) < StepNo(p)})

\* C8: the charts appear in the fixed order, each after the previous one and
\* after the Loader; a run that has failed executes nothing more; and a run
\* whose file is missing or has another column count fails inside the Loader
\* with no chart displayed.
C8_FailStop ==
    /\ \E n \in 0..Len(Charts) : shown = SubSeq(Charts, 1, n)
    /\ pc # "halted" => shown = SubSeq(Charts, 1, ChartsDone(pc))
    /\ (~file.exists \/ file.ncols # NumColumns) =>
         shown = <<>> /\ pc \in {"read", "overview", "rename", "halted"}
    /\ pc = "halted" => ~ENABLED Next

\* A run that failed after three charts.
C8_Witness == pc = "halted" /\ Len(shown) = 3

PivotBuilt == pivot_data.index # <<>>
RowsOfPair(rows, y, g) == SelectSeq(rows, LAMBDA r : r.year = y /\ r.region = g)
Ascending(s) == \A i, j \in 1..Len(s) : i < j => s[i] < s[j]

\* C4: the pivot has one row per year and one column per region of the
\* cleaned table and a number in every cell: the sum of co2_pc * pop over the
\* records of the (year, region) pair, and zero for a pair without records.
C4_PivotCells ==
    PivotBuilt =>
      /\ Range(pivot_data.index) = YearsOf(Cleaned)
      /\ Ascending(pivot_data.index)
      /\ {Cleaned[i].region : i \in 1..Len(Cleaned)} \subseteq Range(pivot_data.columns)
      /\ Ascending(pivot_data.columns)
      /\ DOMAIN pivot_data.cell = Range(pivot_data.index) \X Range(pivot_data.columns)
      /\ \A p \in DOMAIN pivot_data.cell :
           LET grp == RowsOfPair(Cleaned, p[1], p[2])
           IN  /\ ~IsNaN(pivot_data.cell[p])
               /\ grp = <<>> => pivot_data.cell[p] = 0
               /\ grp # <<>> => Close(pivot_data.cell[p], SumOver(grp, EmissionOf),
                                     Unit, 2 * Len(grp))

\* Two years and two regions, a pair with two records and a pair with none.
C4_Witness ==
    /\ PivotBuilt
    /\ Len(pivot_data.index) = 2 /\ Len(pivot_data.columns) = 2
    /\ \E p, q \in DOMAIN pivot_data.cell :
         /\ Len(RowsOfPair(Cleaned, p[1], p[2])) = 2 /\ pivot_data.cell[p] > 0
         /\ RowsOfPair(Cleaned, q[1], q[2]) = <<>> /\ pivot_data.cell[q] = 0

\* The records of the last year, their countries, and a country's total from
\* its records.
LastRecords ==
    SelectSeq(Cleaned, LAMBDA r : \A i \in 1..Len(Cleaned) : Cleaned[i].year <= r.year)
LastCountries == {LastRecords[i].country : i \in 1..Len(LastRecords)}
TotalOf(c) ==
    LET grp == SelectSeq(LastRecords, LAMBDA r : r.country = c)
    IN  FMul(FMean(Column(grp, "co2_pc")), FMean(Column(grp, "pop")))
FLe(a, b) == ~IsNaN(a) /\ ~IsNaN(b) /\ a <= b
Smaller(a, b) == IF a < b THEN a ELSE b

TopSelection(df) ==
    /\ Len(df) = Smaller(TopN, Cardinality(LastCountries))
    /\ \A i, j \in 1..Len(df) : i < j => FLe(df[i].co2, df[j].co2)
    /\ \A i, j \in 1..Len(df) : i # j => df[i].country # df[j].country
    /\ \A i \in 1..Len(df) :
         /\ df[i].country \in LastCountries
         /\ Close(df[i].co2, df[i].co2_pc * df[i].pop, Unit, 1)
         /\ df[i].co2 = TotalOf(df[i].country)
    /\ \A c \in LastCountries \ {df[i].country : i \in 1..Len(df)} :
         \A i \in 1..Len(df) : FLe(TotalOf(c), df[i].co2)

\* C3 as claimed: each top-emitters frame has min(TopN, countries of the last
\* year) rows in ascending order of total, a row's total is its co2_pc * pop,
\* and no country left out has a larger total than a country kept.
C3_Original ==
    /\ top10 # <<>> => TopSelection(top10)
    /\ top10_bn # <<>> => TopSelection(top10_bn)

\* The largest total of a frame, stated from its rows.
AtTop(df, v) ==
    ~IsNaN(v) /\ \A i \in 1..Len(df) : IsNaN(df[i].co2) \/ df[i].co2 <= v

LabelsOf(df, ls) ==
    /\ Len(ls) = Len(df)
    /\ Cardinality({i \in 1..Len(ls) : ls[i].color = "white"}) = 1
    /\ \A i \in 1..Len(ls) : ls[i].color \in {"white", "black"}
    /\ \A i \in 1..Len(df) :
         Cardinality({j \in 1..Len(ls) : ls[j].y = df[i].country}) = 1
    /\ \A j \in 1..Len(ls) :
         /\ ls[j].color = "white" =>
              \E i \in 1..Len(df) :
                 df[i].country = ls[j].y /\ AtTop(df, df[i].co2)
         /\ ls[j].x = ls[1].x
         /\ \E i \in 1..Len(df) :
              AtTop(df, df[i].co2) /\ Close(ls[j].x, 99 * df[i].co2, 100, 2)

\* C10: in each top-emitters chart one row, one with the largest total, has
\* the white label, every other row has one black label, and every label
\* sits at 0.99 times the largest total, ties for the largest included.
C10_OneHighlight ==
    /\ labels.top10 # <<>> => LabelsOf(top10, labels.top10)
    /\ labels.top10_bn # <<>> => LabelsOf(top10_bn, labels.top10_bn)

\* A chart of TopN bars, several of them tied for the largest total.
C10_Witness ==
    /\ labels.top10_bn # <<>>
    /\ Len(top10_bn) = TopN
    /\ Cardinality({i \in 1..Len(top10_bn) :
                      AtTop(top10_bn, top10_bn[i].co2)}) > 2

====
